---------------------------- MODULE Spec2Model ----------------------------
(***************************************************************************)
(* Sprinkles: a four-zone irrigation controller (src/Sprinkles.ino, and    *)
(* its earlier revision src/sprinkler_controller.ino).                     *)
(*                                                                         *)
(* The module holds seven state machines over one set of variables:        *)
(*   SpecLog    ZoneLog, the ring of log entries in EEPROM                 *)
(*   SpecRaw    ZoneLog on an EEPROM whose log was never cleared           *)
(*   SpecBuild  Schedule::build, run loop iteration by loop iteration      *)
(*   Spec       the controller: setup(), loop(), the web handlers, the     *)
(*              zone interlock, the mode, the clock                        *)
(*   SpecTyped  the controller with manual requests typed by hand          *)
(*   SpecLive   loop() with the clock running on, under fairness           *)
(*   SpecNtp    getNTPtime, the wait for a reply and its conversion        *)
(* A specification leaves the variables of the other machines unchanged.   *)
(*                                                                         *)
(* Spec runs loop() as two steps, the request handler processConnection    *)
(* calls and then the scheduler tick; each is one action, with build()     *)
(* and the zone functions they call inside it.  The writes a handler       *)
(* makes (zone flags, pins, log entries) are kept in ops, in order, so     *)
(* that the states inside a handler can be spoken of.  What gZoneLog.add   *)
(* does to the ring is SpecLog's.                                          *)
(*                                                                         *)
(* Time.  time_t is an unsigned 32-bit count of seconds.  TLC's integers   *)
(* are 32 bits signed, so the model counts time in units of Granule = 4    *)
(* seconds: every clock reading of the model is a multiple of 4 s, all     *)
(* the constants of the code (60, 86400, the zone offsets) are multiples   *)
(* of 4 s, and 2^32 s is exactly 2^30 units, so unsigned wrap-around is    *)
(* arithmetic modulo TimeMod.                                              *)
(***************************************************************************)
EXTENDS Integers, Sequences, FiniteSets, TLC

VARIABLES
    \* ZoneLog (RAM) and its EEPROM image
    head, tail,         \* ZoneLog::head, ZoneLog::tail
    eeHead, eeTail,     \* the ints stored at EEADDR_ZONE_LOG_BASE, +sizeof(int)
    ring,               \* EEPROM ring: slot address -> entry
    hist,               \* ghost: the entries added since the last clear()
    clears,             \* ghost: number of clear() calls so far
    stamp,              \* ghost: number of entries written so far
    restarts,           \* ghost: number of restarts so far
    \* the clock (Time library): what now() returns
    realTime,           \* the true UTC time
    bootTime,           \* the true UTC time of the last reset; 0 once the clock is set
    synced,             \* an NTP reply has set the clock since the last reset
    \* the watering cycle and the compiled schedule
    gCurCycle,          \* WaterCycle gCurCycle
    eventList,          \* Schedule::eventList, indexed 0 .. NUM_SCHED_EVENTS-1
    \* Schedule::build(), run step by step (SpecBuild)
    bpc,                \* "idle", "scan" (the while loop of line 217), "spin", "done"
    localTime,          \* build's local localTime
    eventStart,         \* build's local eventStart
    bi,                 \* build's local i
    bdays,              \* ghost: candidate days the loop of line 217 has tested
    oldEvents,          \* ghost: eventList as the last build() found it
    \* the controller (Spec)
    on,                 \* gZoneList[z].on
    pin,                \* the level last written to gZoneList[z].pin (TRUE = HIGH)
    mode,               \* sysStatus.mode: "IDLE", "MANUAL", "AUTO"
    eeCycle,            \* the WaterCycle stored at EEADDR_WATER_CYCLE
    nextSync,           \* Time library: uptime of the next call of getNTPtime
    pc,                 \* position in loop(): "web", "sched", or "hung" in build()
    req,                \* the request processConnection served in this iteration
    ops,                \* ghost: flag, pin and log writes of the last handler, in order
    boots,              \* ghost: number of resets so far
    \* getNTPtime() (SpecNtp)
    ntpPacket,          \* bytes 40..43 of the buffer ntpPacket
    npc,                \* "idle", "wait" (the loop of line 788), "done"
    waited,             \* millis() - beginWait
    replied,            \* ghost: a packet was read
    ntpResult           \* the value returned, as its high and low 16-bit words

logVars == <<head, tail, eeHead, eeTail, ring, hist, clears, stamp, restarts>>
clockVars == <<realTime, bootTime, synced>>
schedVars == <<gCurCycle, eventList>>
buildVars == <<bpc, localTime, eventStart, bi, bdays, oldEvents>>

ctlVars == <<on, pin, mode, eeCycle, nextSync, pc, req, ops, boots>>

ntpVars == <<ntpPacket, npc, waited, replied, ntpResult>>

vars == <<logVars, clockVars, schedVars, buildVars, ctlVars, ntpVars>>

\* What each machine leaves alone.
notLogVars == <<clockVars, schedVars, buildVars, ctlVars, ntpVars>>
\* What add() leaves alone besides the log: everything but the stored cycle,
\* which an add() through a head below the ring can overwrite.
notAddVars == <<clockVars, schedVars, buildVars, on, pin, mode, nextSync, pc, req, ops,
                boots, ntpVars>>
notBuildVars == <<logVars, ctlVars, ntpVars>>
notCtlVars == <<logVars, buildVars, ntpVars>>
notNtpVars == <<logVars, clockVars, schedVars, buildVars, ctlVars>>

---------------------------------------------------------------------------
(* Program constants *)

NUM_ZONES == 4
Zones == 0 .. NUM_ZONES - 1

\* sizeof(time_t), sizeof(byte), sizeof(boolean), sizeof(int) on the AVR target
SizeofTime == 4
SizeofByte == 1
SizeofInt == 2

ZONE_LOG_LENGTH == (NUM_ZONES * 2 * 3) + 1
ZONE_LOG_ELEM_SIZE == SizeofTime + SizeofByte + SizeofByte
EEADDR_WATER_CYCLE == 0
EEADDR_ZONE_LOG_BASE == 100
EEADDR_ZONE_LOG_START == EEADDR_ZONE_LOG_BASE + (2 * SizeofInt)
EEADDR_ZONE_LOG_END == EEADDR_ZONE_LOG_START + (ZONE_LOG_LENGTH * ZONE_LOG_ELEM_SIZE)

\* The zone number setup() logs to mark a reset.
RESET_ZONE == 99

---------------------------------------------------------------------------
(* Bounds of the model *)

\* SpecLog: entries written in one behaviour, restarts, clears.
MaxAdds == 28
MaxRestarts == 1
MaxClears == 2

\* Schedule::build: times the first loop (line 211) may wrap past 2^32 s, and
\* candidate days the second loop (line 217) is followed for.
MaxLaps == 675
MaxScan == 9

---------------------------------------------------------------------------
(* ZoneLog *)

Slots == { EEADDR_ZONE_LOG_START + (k * ZONE_LOG_ELEM_SIZE) : k \in 0 .. ZONE_LOG_LENGTH - 1 }

Entry(tm, zone, state) == [tm |-> tm, zone |-> zone, state |-> state]

\* A slip in add(): head is not wrapped at the end of the ring.
AddHead_NoWrap(h) == h + SizeofTime + SizeofByte + SizeofByte

\* add(): the value of head after the three EEPROM.put calls and the wrap test.
AddHead(h) ==
    LET h1 == h + SizeofTime + SizeofByte + SizeofByte
    IN  IF h1 >= EEADDR_ZONE_LOG_END THEN EEADDR_ZONE_LOG_START ELSE h1

\* A slip in add(): a full ring does not evict.
AddTail_NoEvict(h1, t) == t

\* A slip in add(): a full ring evicts two entries.
AddTail_EvictsTwo(h1, t) ==
    IF h1 = t
    THEN LET t1 == h1 + (2 * ZONE_LOG_ELEM_SIZE)
         IN  IF t1 >= EEADDR_ZONE_LOG_END THEN EEADDR_ZONE_LOG_START ELSE t1
    ELSE t

\* add(): the value of tail, given the new head h1.
AddTail(h1, t) ==
    IF h1 = t
    THEN LET t1 == h1 + ZONE_LOG_ELEM_SIZE
         IN  IF t1 >= EEADDR_ZONE_LOG_END THEN EEADDR_ZONE_LOG_START ELSE t1
    ELSE t

\* The bytes [a, a + ZONE_LOG_ELEM_SIZE) and [b, b + n) have a byte in common.
Overlap(a, b, n) == a < b + n /\ b < a + ZONE_LOG_ELEM_SIZE

\* What six bytes read as that are not one entry written at a slot (parts of
\* two entries, or of an entry put at an address that is not a slot).
Torn == Entry(0 - 1, 0 - 1, FALSE)

\* EEPROM.get of tm, zone and state at address a.
ReadEntry(mem, a) == IF a \in Slots THEN mem[a] ELSE Torn

\* The three EEPROM.put calls of add() at address a (lines 101-105): at a slot
\* they fill it; elsewhere (head loaded from a log area never initialised) they
\* run over the parts of the slots they cover.
PutEntry(mem, a, e) ==
    IF a \in Slots
    THEN [mem EXCEPT ![a] = e]
    ELSE [s \in Slots |-> IF Overlap(a, s, ZONE_LOG_ELEM_SIZE) THEN Torn ELSE mem[s]]

\* sizeof(WaterCycle): int, NUM_ZONES bytes, byte, bool
SizeofWaterCycle == SizeofInt + (NUM_ZONES * SizeofByte) + SizeofByte + SizeofByte

\* The stored cycle after the puts of add() at address a ran over it.
TornCycle == [startTime |-> 0 - 1, zone_duration |-> << >>, activeDays |-> 0 - 1, enabled |-> FALSE]
PutOverCycle(cyc, a) ==
    IF Overlap(a, EEADDR_WATER_CYCLE, SizeofWaterCycle) THEN TornCycle ELSE cyc

\* dumpHTML(): the entries printed, walking from addr back to tl.  fuel bounds
\* the walk; <<>> is returned at once when addr = tl.
RECURSIVE DumpFrom(_, _, _, _)
DumpFrom(addr, tl, mem, fuel) ==
    IF addr = tl \/ fuel = 0
    THEN << >>
    ELSE LET a1 == addr - ZONE_LOG_ELEM_SIZE
             a2 == IF a1 < EEADDR_ZONE_LOG_START
                   THEN EEADDR_ZONE_LOG_END - ZONE_LOG_ELEM_SIZE
                   ELSE a1
         IN  << ReadEntry(mem, a2) >> \o DumpFrom(a2, tl, mem, fuel - 1)

\* Steps that decide whether the walk of dumpHTML() ends: from a head below
\* EEADDR_ZONE_LOG_END it is at the last slot within ZONE_LOG_LENGTH + 1
\* steps, and from there it repeats after ZONE_LOG_LENGTH steps.
DumpFuel == (2 * ZONE_LOG_LENGTH) + 2

\* The loop of dumpHTML() (line 144) from addr ends: addr reaches tl.
RECURSIVE DumpEnds(_, _, _)
DumpEnds(addr, tl, fuel) ==
    IF addr = tl THEN TRUE
    ELSE IF fuel = 0 THEN FALSE
    ELSE LET a1 == addr - ZONE_LOG_ELEM_SIZE
         IN  DumpEnds(IF a1 < EEADDR_ZONE_LOG_START
                      THEN EEADDR_ZONE_LOG_END - ZONE_LOG_ELEM_SIZE
                      ELSE a1, tl, fuel - 1)

\* dumpHTML() on the live pointers: the rows of the log table, newest first.
dumpHTML == DumpFrom(head, tail, ring, ZONE_LOG_LENGTH + 1)

\* One EEPROM.put: the address, what is stored there (a part of the entry, or
\* a pointer) and the pointer's value (0 for a part of the entry).
Put(addr, what, val) == [addr |-> addr, what |-> what, val |-> val]

\* A slip: add() stores the pointers first, the entry afterwards.
AddWrites_PointersFirst(h, t) ==
    << Put(EEADDR_ZONE_LOG_BASE, "head", AddHead(h)),
       Put(EEADDR_ZONE_LOG_BASE + SizeofInt, "tail", AddTail(AddHead(h), t)),
       Put(h, "tm", 0),
       Put(h + SizeofTime, "zone", 0),
       Put(h + SizeofTime + SizeofByte, "state", 0) >>

\* The EEPROM.put calls of add() with head = h and tail = t, in order (lines
\* 101, 103, 105, 117, 118).
AddWrites(h, t) ==
    << Put(h, "tm", 0),
       Put(h + SizeofTime, "zone", 0),
       Put(h + SizeofTime + SizeofByte, "state", 0),
       Put(EEADDR_ZONE_LOG_BASE, "head", AddHead(h)),
       Put(EEADDR_ZONE_LOG_BASE + SizeofInt, "tail", AddTail(AddHead(h), t)) >>

\* The entry SpecLog writes as its n-th: the stamp stands for the local time,
\* the zone and the state follow the stamp.
NthEntry(n) == Entry(n, n % NUM_ZONES, (n \div NUM_ZONES) % 2 = 0)

\* ZoneLog::add(zone, state) with local time tm.
LogAdd(tm, zone, state) ==
    LET e  == Entry(tm, zone, state)
        h1 == AddHead(head)
        t1 == AddTail(h1, tail)
    IN  /\ ring' = PutEntry(ring, head, e)
        /\ eeCycle' = PutOverCycle(eeCycle, head)
        /\ head' = h1
        /\ tail' = t1
        /\ eeHead' = h1
        /\ eeTail' = t1
        /\ hist' = Append(hist, e)

\* A slip: clear() resets head alone.
LogClear_HeadOnly ==
    /\ clears < MaxClears
    /\ head' = EEADDR_ZONE_LOG_START
    /\ eeHead' = EEADDR_ZONE_LOG_START
    /\ hist' = << >>
    /\ clears' = clears + 1
    /\ UNCHANGED <<tail, eeTail, ring, stamp, restarts>>
    /\ UNCHANGED notLogVars

\* ZoneLog::clear()
LogClear ==
    /\ clears < MaxClears
    /\ head' = EEADDR_ZONE_LOG_START
    /\ tail' = EEADDR_ZONE_LOG_START
    /\ eeHead' = EEADDR_ZONE_LOG_START
    /\ eeTail' = EEADDR_ZONE_LOG_START
    /\ hist' = << >>
    /\ clears' = clears + 1
    /\ UNCHANGED <<ring, stamp, restarts>>
    /\ UNCHANGED notLogVars

\* An add by zoneOn()/zoneOff().
LogAddEntry ==
    /\ stamp < MaxAdds
    /\ LET e == NthEntry(stamp + 1)
       IN  LogAdd(e.tm, e.zone, e.state)
    /\ stamp' = stamp + 1
    /\ UNCHANGED <<clears, restarts>>
    /\ UNCHANGED notAddVars

\* A reset: setup() runs begin(), which reloads head and tail from EEPROM,
\* and then add(99, false).
LogRestart ==
    /\ stamp < MaxAdds
    /\ restarts < MaxRestarts
    /\ LET h0 == eeHead
           t0 == eeTail
           e  == Entry(stamp + 1, RESET_ZONE, FALSE)
           h1 == AddHead(h0)
           t1 == AddTail(h1, t0)
       IN  /\ ring' = PutEntry(ring, h0, e)
           /\ eeCycle' = PutOverCycle(eeCycle, h0)
           /\ head' = h1
           /\ tail' = t1
           /\ eeHead' = h1
           /\ eeTail' = t1
           /\ hist' = Append(hist, e)
    /\ stamp' = stamp + 1
    /\ restarts' = restarts + 1
    /\ UNCHANGED clears
    /\ UNCHANGED notAddVars

\* A reset while add() runs (lines 100-118), then setup(): begin() and
\* add(99, false).  The entry is in its slot; the reset comes before the new
\* head is stored (line 117), or after it and before the new tail is stored
\* (line 118).  hist follows the ring: the entry counts as added once its head
\* is stored, and when begin() loads head = tail the log reads as after clear().
\* Followed from the states with head at a slot.
LogResetInAdd ==
    /\ stamp + 1 < MaxAdds
    /\ restarts < MaxRestarts
    /\ head \in Slots
    /\ \E headStored \in BOOLEAN :
          LET e  == NthEntry(stamp + 1)
              h0 == IF headStored THEN AddHead(head) ELSE eeHead
              t0 == eeTail
              m  == Entry(stamp + 2, RESET_ZONE, FALSE)
              h1 == AddHead(h0)
              t1 == AddTail(h1, t0)
          IN  /\ ring' = [[ring EXCEPT ![head] = e] EXCEPT ![h0] = m]
              /\ head' = h1
              /\ tail' = t1
              /\ eeHead' = h1
              /\ eeTail' = t1
              /\ hist' = IF ~headStored THEN Append(hist, m)
                         ELSE IF h0 = t0 THEN << m >>
                         ELSE Append(Append(hist, e), m)
    /\ stamp' = stamp + 2
    /\ restarts' = restarts + 1
    /\ UNCHANGED clears
    /\ UNCHANGED notLogVars

\* The EEPROM holds a valid, empty log when the model starts: the image an
\* earlier clear() left.
ParkLog ==
    /\ head = EEADDR_ZONE_LOG_START
    /\ tail = EEADDR_ZONE_LOG_START
    /\ eeHead = EEADDR_ZONE_LOG_START
    /\ eeTail = EEADDR_ZONE_LOG_START
    /\ ring = [a \in Slots |-> Entry(0, 0, FALSE)]
    /\ hist = << >>
    /\ clears = 0
    /\ stamp = 0
    /\ restarts = 0

NextLog ==
    \/ LogAddEntry
    \/ LogClear
    \/ LogRestart
    \/ LogResetInAdd


---------------------------------------------------------------------------
(* Time (Time.h, Timezone.h as used by the sketch) *)

\* Seconds per time unit of the model, and 2^32 seconds in units.
Granule == 2 ^ 2
TimeMod == 2 ^ 30

\* unsigned long arithmetic
U32(x) == x % TimeMod

SECS_PER_MIN == 60 \div Granule
SECS_PER_HOUR == 3600 \div Granule
SECS_PER_DAY == 86400 \div Granule
DAYS_PER_WEEK == 7

\* previousMidnight(t): ((t / SECS_PER_DAY) * SECS_PER_DAY)
previousMidnight(t) == (t \div SECS_PER_DAY) * SECS_PER_DAY

\* weekday(t): 1 = Sunday .. 7 = Saturday; 1 January 1970 was a Thursday.
weekday(t) == (((t \div SECS_PER_DAY) + 4) % DAYS_PER_WEEK) + 1

\* myDST = {"PDT", Second, Sun, Mar, 2, -420}, mySTD = {"PST", First, Sun, Nov, 2, -480}:
\* the offsets in minutes, and the two change instants (UTC) of 2016, the year
\* the synchronised clock of the model lies in: 13 March 10:00Z, 6 November 09:00Z.
DstOffset == 0 - 420
StdOffset == 0 - 480
DstStartUTC == 1457863200 \div Granule
StdStartUTC == 1478422800 \div Granule

\* Timezone::utcIsDST, for a clock in 2016 or (never set) in January 1970.
utcIsDST(utc) == DstStartUTC <= utc /\ utc < StdStartUTC

\* Timezone::toLocal: utc + offset * SECS_PER_MIN, in unsigned long.
toLocal(utc) ==
    IF utcIsDST(utc)
    THEN U32(utc + (DstOffset * SECS_PER_MIN))
    ELSE U32(utc + (StdOffset * SECS_PER_MIN))

\* now(): the synchronised time, or the seconds since the reset while the sync
\* provider (getNTPtime) has only returned 0.
now == IF synced THEN realTime ELSE U32(realTime - bootTime)

---------------------------------------------------------------------------
(* Schedule *)

NUM_SCHED_EVENTS == 1
EventIdx == 0 .. NUM_SCHED_EVENTS - 1

WaterCycle(st, dur, days, en) ==
    [startTime |-> st, zone_duration |-> dur, activeDays |-> days, enabled |-> en]

\* memset(eventList, 0, sizeof(eventList))
ZeroEvent == [startTime |-> 0, zoneStopTime |-> [j \in Zones |-> 0]]
ZeroEventList == [i \in EventIdx |-> ZeroEvent]

\* A slip: the schedule is not cleared.
Memset_Skipped(evl) == evl

\* A slip: only the stop times are cleared.
Memset_StopsOnly(evl) ==
    [i \in EventIdx |-> [startTime |-> evl[i].startTime,
                         zoneStopTime |-> [j \in Zones |-> 0]]]

\* memset(eventList, 0, sizeof(eventList)) applied to evl
Memset(evl) == ZeroEventList

\* previousMidnight(localTime) + (cycle->startTime * SECS_PER_MIN)
FirstCandidate(cycle, lt) ==
    U32(previousMidnight(lt) + U32(cycle.startTime * SECS_PER_MIN))

\* while (eventStart < localTime) eventStart += SECS_PER_DAY;
\* The loop adds days until eventStart is in [lt, lt + day), which keeps the
\* time of day of eventStart.  If that instant is 2^32 s or later, eventStart
\* has wrapped to it less 2^32 s, its time of day WrapShift earlier, and the
\* loop passes lt again.  Landing is the instant of the n-th pass.
WrapShift == TimeMod % SECS_PER_DAY

Landing(e, lt, n) ==
    LET p == (e - (n * WrapShift)) % SECS_PER_DAY
        r == lt % SECS_PER_DAY
    IN  (lt - r) + p + (IF p < r THEN SECS_PER_DAY ELSE 0)

\* The value of eventStart when the loop exits, or -1 when it has wrapped past
\* 2^32 s laps times without exiting (after SECS_PER_DAY / gcd(SECS_PER_DAY,
\* WrapShift) = 675 wraps the times of day repeat).
FirstNotBefore(e, lt, laps) ==
    IF e >= lt THEN e
    ELSE IF Landing(e, lt, 0) < TimeMod THEN Landing(e, lt, 0)
    ELSE LET exits == { n \in 1 .. laps : Landing(e, lt, n) < TimeMod }
         IN  IF exits = { } THEN 0 - 1
             ELSE Landing(e, lt, CHOOSE n \in exits : \A m \in 1 .. n - 1 : m \notin exits)

\* cycle->activeDays & (1 << weekday(eventStart))
DaySelected(cycle, e) == (cycle.activeDays \div (2 ^ weekday(e))) % 2 = 1

\* zoneStopTime[j] = t + (cycle->zone_duration[j] * SECS_PER_MIN); t = zoneStopTime[j]
RECURSIVE StopTime(_, _, _)
StopTime(cycle, e, j) ==
    LET t == IF j = 0 THEN e ELSE StopTime(cycle, e, j - 1)
    IN  U32(t + (cycle.zone_duration[j] * SECS_PER_MIN))

\* The event lines 219-223 store for a selected day.
EventAt(cycle, e) ==
    [startTime |-> e, zoneStopTime |-> [j \in Zones |-> StopTime(cycle, e, j)]]

\* --- build(), one action per stretch of its code ---

\* Lines 203-213: clear the schedule; for an enabled cycle with a day set, read
\* the local time and find the first candidate start.
BuildEnter ==
    /\ bpc = "idle"
    /\ eventList' = Memset(eventList)
    /\ oldEvents' = eventList
    /\ bdays' = 0
    /\ bi' = 0
    /\ IF gCurCycle.enabled /\ gCurCycle.activeDays # 0
       THEN LET lt == toLocal(now)
                e  == FirstNotBefore(FirstCandidate(gCurCycle, lt), lt, MaxLaps)
            IN  /\ localTime' = lt
                /\ eventStart' = e
                /\ bpc' = IF e < 0 THEN "spin" ELSE "scan"
       ELSE /\ bpc' = "done"
            /\ UNCHANGED <<localTime, eventStart>>
    /\ UNCHANGED <<gCurCycle, clockVars, notBuildVars>>

\* Lines 217-227: one iteration of while (i < NUM_SCHED_EVENTS).
BuildScan ==
    /\ bpc = "scan"
    /\ bi < NUM_SCHED_EVENTS
    /\ bdays < MaxScan
    /\ IF DaySelected(gCurCycle, eventStart)
       THEN /\ eventList' = [eventList EXCEPT ![bi] = EventAt(gCurCycle, eventStart)]
            /\ bi' = bi + 1
       ELSE UNCHANGED <<eventList, bi>>
    /\ eventStart' = U32(eventStart + SECS_PER_DAY)
    /\ bdays' = bdays + 1
    /\ UNCHANGED <<bpc, localTime, oldEvents, gCurCycle, clockVars, notBuildVars>>

\* Line 217: the loop test fails, build() returns.
BuildExit ==
    /\ bpc = "scan"
    /\ bi >= NUM_SCHED_EVENTS
    /\ bpc' = "done"
    /\ UNCHANGED <<localTime, eventStart, bi, bdays, oldEvents, schedVars, clockVars, notBuildVars>>

\* A slip: the last zone with a later stop time is reported, not the first.
ActiveIn_Last(ev, lt) ==
    IF lt >= ev.startTime /\ (\E j \in Zones : lt < ev.zoneStopTime[j])
    THEN CHOOSE j \in Zones :
            /\ lt < ev.zoneStopTime[j]
            /\ \A k \in Zones : lt < ev.zoneStopTime[k] => j >= k
    ELSE 0 - 1

\* A slip: a zone still counts at the instant it stops.
ActiveIn_UpToStop(ev, lt) ==
    IF lt >= ev.startTime /\ (\E j \in Zones : lt <= ev.zoneStopTime[j])
    THEN CHOOSE j \in Zones :
            /\ lt <= ev.zoneStopTime[j]
            /\ \A k \in Zones : lt <= ev.zoneStopTime[k] => j <= k
    ELSE 0 - 1

\* Schedule::activeZone() at local time lt: the zone, or -1.
ActiveIn(ev, lt) ==
    IF lt >= ev.startTime /\ (\E j \in Zones : lt < ev.zoneStopTime[j])
    THEN CHOOSE j \in Zones :
            /\ lt < ev.zoneStopTime[j]
            /\ \A k \in Zones : lt < ev.zoneStopTime[k] => j <= k
    ELSE 0 - 1

activeZoneAt(evl, lt) ==
    IF \E i \in EventIdx : ActiveIn(evl[i], lt) # 0 - 1
    THEN LET i == CHOOSE i \in EventIdx :
                    /\ ActiveIn(evl[i], lt) # 0 - 1
                    /\ \A k \in EventIdx : ActiveIn(evl[k], lt) # 0 - 1 => i <= k
         IN  ActiveIn(evl[i], lt)
    ELSE 0 - 1

activeZone == activeZoneAt(eventList, toLocal(now))

\* A slip: the schedule is never found stale.
isStale_Never == FALSE

\* Schedule::isStale()
isStale == toLocal(now) > eventList[NUM_SCHED_EVENTS - 1].zoneStopTime[NUM_ZONES - 1]

\* --- the inputs of SpecBuild ---

\* Cycles the form of the home page submits (start on the hour, durations of
\* 0..30 minutes, days D1..D7), the mask with only bit 0 set, which no weekday
\* selects (request parameter D0), and the cycle an EEPROM of 0xFF bytes holds.
BuildStarts == {0, 120, 360}
BuildDurations ==
    { [j \in Zones |-> 10],
      [j \in Zones |-> IF j = 1 THEN 5 ELSE IF j = 3 THEN 30 ELSE 0],
      [j \in Zones |-> 0] }
BuildDays == {0, 1, 2, 8, 255}
BlankCycle == WaterCycle(0 - 1, [j \in Zones |-> 255], 255, TRUE)
BuildCycles ==
    { WaterCycle(st, dur, days, en) :
        st \in BuildStarts, dur \in BuildDurations, days \in BuildDays, en \in BOOLEAN }
    \cup { BlankCycle }

\* Clock readings: [real |-> true UTC time, boot |-> true UTC time of the
\* reset, synced].  Tuesday 14 June 2016 06:00:00 PDT and 4 s later, Saturday
\* 18 June 23:30 PDT, Sunday 13 March 01:58 PST (2 minutes before the change to
\* PDT), Sunday 6 November 01:30 PDT (30 minutes before the change to PST); and
\* a clock never set, at the reset, 1 hour and 9 hours after it.
Clock(r, b, sy) == [real |-> r, boot |-> b, synced |-> sy]
BootSample == 1465819200 \div Granule
SyncedSamples ==
    { 1465909200 \div Granule, (1465909200 \div Granule) + 1, 1466317800 \div Granule,
      1457863080 \div Granule, 1478421000 \div Granule }
UptimeSamples == { 0, SECS_PER_HOUR, 9 * SECS_PER_HOUR }
ClockSamples ==
    { Clock(r, BootSample, TRUE) : r \in SyncedSamples }
    \cup { Clock(BootSample + u, BootSample, FALSE) : u \in UptimeSamples }

\* A new cycle is stored (cycleCmd) and build() is called again.
BuildNewCycle ==
    /\ bpc = "done"
    /\ \E c \in BuildCycles : gCurCycle' = c
    /\ bpc' = "idle"
    /\ UNCHANGED <<eventList, localTime, eventStart, bi, bdays, oldEvents, clockVars, notBuildVars>>

ParkBuild ==
    /\ bpc = "idle"
    /\ localTime = 0
    /\ eventStart = 0
    /\ bi = 0
    /\ bdays = 0
    /\ oldEvents = ZeroEventList

ParkClock ==
    /\ realTime = BootSample
    /\ bootTime = BootSample
    /\ synced = TRUE

ParkSched ==
    /\ gCurCycle = WaterCycle(0, [j \in Zones |-> 0], 0, FALSE)
    /\ eventList = ZeroEventList

NextBuild ==
    \/ BuildEnter
    \/ BuildScan
    \/ BuildExit
    \/ BuildNewCycle

---------------------------------------------------------------------------
(* The controller: the zones, the mode, setup() and loop() *)

\* Bounds of Spec: resets, and days the clock runs for after the first reset.
MaxBoots == 1
MaxDays == 1

\* The clock at the first reset: Tuesday 14 June 2016 05:55:00 PDT.
CtlBoot == 1465908900 \div Granule

\* --- zone control ---

\* The zone flags, the pin levels and the trace of writes, as the zone
\* functions pass them on.
ZoneState(o, p, t) == [on |-> o, pin |-> p, ops |-> t]

\* The zones a flag (or pin) function holds TRUE for.
OnSet(f) == { z \in Zones : f[z] }

\* One write of kind k ("flag", "pin", "log") recorded with the flags and the
\* pins as they are just after it.
Emit(st, k, zone, v) ==
    [st EXCEPT !.ops = Append(@, [k |-> k, zone |-> zone, val |-> v,
                                  on |-> OnSet(st.on), hi |-> OnSet(st.pin)])]

\* A slip: the zone is switched off and nothing is logged.
zoneOff_NoLog(st, zone) ==
    IF st.on[zone]
    THEN LET s1 == Emit([st EXCEPT !.on[zone] = FALSE], "flag", zone, FALSE)
         IN  Emit([s1 EXCEPT !.pin[zone] = FALSE], "pin", zone, FALSE)
    ELSE st

\* A slip: the flag is cleared and logged, the pin is left as it was.
zoneOff_NoPin(st, zone) ==
    IF st.on[zone]
    THEN LET s1 == Emit([st EXCEPT !.on[zone] = FALSE], "flag", zone, FALSE)
         IN  Emit(s1, "log", zone, FALSE)
    ELSE st

\* A slip: the log entry is written before the pin.
zoneOff_LogFirst(st, zone) ==
    IF st.on[zone]
    THEN LET s1 == Emit([st EXCEPT !.on[zone] = FALSE], "flag", zone, FALSE)
             s2 == Emit(s1, "log", zone, FALSE)
         IN  Emit([s2 EXCEPT !.pin[zone] = FALSE], "pin", zone, FALSE)
    ELSE st

\* zoneOff(zone)
zoneOff(st, zone) ==
    IF st.on[zone]
    THEN LET s1 == Emit([st EXCEPT !.on[zone] = FALSE], "flag", zone, FALSE)
             s2 == Emit([s1 EXCEPT !.pin[zone] = FALSE], "pin", zone, FALSE)
         IN  Emit(s2, "log", zone, FALSE)
    ELSE st

\* for (i = from; i < NUM_ZONES; i++) zoneOff(i);
RECURSIVE ZonesOffFrom(_, _)
ZonesOffFrom(st, from) ==
    IF from >= NUM_ZONES THEN st ELSE ZonesOffFrom(zoneOff(st, from), from + 1)

\* A slip: the last zone is left out.
allZonesOff_SkipsLast(st) == zoneOff(zoneOff(zoneOff(st, 0), 1), 2)

\* A slip: only zone 0 is switched off.
allZonesOff_FirstOnly(st) == zoneOff(st, 0)

\* allZonesOff()
allZonesOff(st) == ZonesOffFrom(st, 0)

\* A slip: the zone is switched on without switching the others off.
zoneOn_NoInterlock(st, zone) ==
    IF ~st.on[zone]
    THEN LET s1 == Emit([st EXCEPT !.on[zone] = TRUE], "flag", zone, TRUE)
             s2 == Emit([s1 EXCEPT !.pin[zone] = TRUE], "pin", zone, TRUE)
         IN  Emit(s2, "log", zone, TRUE)
    ELSE st

\* A slip: the zone is switched on before the others are switched off.
zoneOn_OnFirst(st, zone) ==
    IF ~st.on[zone]
    THEN LET s1 == Emit([st EXCEPT !.on[zone] = TRUE], "flag", zone, TRUE)
             s2 == Emit([s1 EXCEPT !.pin[zone] = TRUE], "pin", zone, TRUE)
             s3 == Emit(s2, "log", zone, TRUE)
             s4 == ZonesOffFrom([s3 EXCEPT !.on[zone] = FALSE], 0)
         IN  [s4 EXCEPT !.on[zone] = TRUE]
    ELSE st

\* A slip: the test of the on flag is missing.
zoneOn_Unguarded(st, zone) ==
    LET s0 == ZonesOffFrom(st, 0)
        s1 == Emit([s0 EXCEPT !.on[zone] = TRUE], "flag", zone, TRUE)
        s2 == Emit([s1 EXCEPT !.pin[zone] = TRUE], "pin", zone, TRUE)
    IN  Emit(s2, "log", zone, TRUE)

\* zoneOn(zone)
zoneOn(st, zone) ==
    IF ~st.on[zone]
    THEN LET s0 == ZonesOffFrom(st, 0)
             s1 == Emit([s0 EXCEPT !.on[zone] = TRUE], "flag", zone, TRUE)
             s2 == Emit([s1 EXCEPT !.pin[zone] = TRUE], "pin", zone, TRUE)
         IN  Emit(s2, "log", zone, TRUE)
    ELSE st

\* The zones as a handler finds them, with an empty trace.
ZonesNow == ZoneState(on, pin, << >>)

\* --- Schedule::build() as one call ---

\* The while loop of lines 217-227 from eventStart = e and index i, followed
\* for at most fuel candidate days: the list it leaves, and whether it exits.
RECURSIVE ScanFrom(_, _, _, _, _)
ScanFrom(cycle, e, evl, i, fuel) ==
    IF i >= NUM_SCHED_EVENTS THEN [eventList |-> evl, returns |-> TRUE]
    ELSE IF fuel = 0 THEN [eventList |-> evl, returns |-> FALSE]
    ELSE IF DaySelected(cycle, e)
         THEN ScanFrom(cycle, U32(e + SECS_PER_DAY),
                       [evl EXCEPT ![i] = EventAt(cycle, e)], i + 1, fuel - 1)
         ELSE ScanFrom(cycle, U32(e + SECS_PER_DAY), evl, i, fuel - 1)

\* A slip: build() tests activeDays only, not enabled.
build_IgnoresEnabled(cycle, evl, lt) ==
    IF cycle.activeDays # 0
    THEN LET e == FirstNotBefore(FirstCandidate(cycle, lt), lt, MaxLaps)
         IN  IF e < 0 THEN [eventList |-> Memset(evl), returns |-> FALSE]
             ELSE ScanFrom(cycle, e, Memset(evl), 0, MaxScan)
    ELSE [eventList |-> Memset(evl), returns |-> TRUE]

\* build(cycle) run on the list evl at local time lt.
build(cycle, evl, lt) ==
    IF cycle.enabled /\ cycle.activeDays # 0
    THEN LET e == FirstNotBefore(FirstCandidate(cycle, lt), lt, MaxLaps)
         IN  IF e < 0 THEN [eventList |-> Memset(evl), returns |-> FALSE]
             ELSE ScanFrom(cycle, e, Memset(evl), 0, MaxScan)
    ELSE [eventList |-> Memset(evl), returns |-> TRUE]

\* --- the clock ---

\* Seconds since the reset (the Time library's sysTime while never set).
uptime == U32(realTime - bootTime)

\* now() is about to call the sync provider: the clock was never set and
\* nextSyncTime has passed.
SyncDue == ~synced /\ uptime >= nextSync

\* The instants the compiled schedule changes its answer at.
Boundaries ==
    { eventList[i].startTime : i \in EventIdx }
    \cup { eventList[i].zoneStopTime[j] : i \in EventIdx, j \in Zones }

\* Seconds from now to the next instant of Boundaries within a day, if any.
ToNextBoundary ==
    LET ahead == { d \in { U32(b - toLocal(now)) : b \in Boundaries } :
                     0 < d /\ d <= SECS_PER_DAY }
    IN  { d \in ahead : \A e \in ahead : d <= e }

\* Clock steps: up to the next instant of Boundaries, 4 s past an instant of
\* Boundaries, and a day; none beyond MaxDays after the first reset.
Steps ==
    { d \in ToNextBoundary \cup { SECS_PER_DAY }
            \cup (IF toLocal(now) \in Boundaries THEN { 1 } ELSE { }) :
        realTime + d <= CtlBoot + (MaxDays * SECS_PER_DAY) }

\* --- the requests ---

\* Cycles the form of the home page submits: every day at 06:00 or 23:00 for
\* 10 minutes a zone, at 06:00 for 5 and 30 minutes in zones 1 and 3, the
\* first one disabled, and the first one with no day ticked.
EveryDay == 254
TenEach == [j \in Zones |-> 10]
CtlCycles ==
    { WaterCycle(360, TenEach, EveryDay, TRUE),
      WaterCycle(1380, TenEach, EveryDay, TRUE),
      WaterCycle(360, [j \in Zones |-> IF j = 1 THEN 5 ELSE IF j = 3 THEN 30 ELSE 0],
                 EveryDay, TRUE),
      WaterCycle(360, TenEach, EveryDay, FALSE),
      WaterCycle(360, TenEach, 0, TRUE) }

\* A served request: its kind, and the mode it found.
Request(k) == [k |-> k, mode0 |-> mode]
NoRequest == [k |-> "none", mode0 |-> "IDLE"]

\* --- loop(): processConnection, one action per request ---

\* What a request handler leaves alone besides the controller's variables.
Served(r) ==
    /\ pc = "web"
    /\ ~SyncDue
    /\ req' = r
    /\ UNCHANGED <<clockVars, nextSync, boots, notCtlVars>>

\* The handler has written the zones as st.
ZonesBecome(st) ==
    /\ on' = st.on
    /\ pin' = st.pin
    /\ ops' = st.ops

\* No connection is waiting, or the home page is served.
Idle ==
    /\ Served(Request("none"))
    /\ pc' = "sched"
    /\ ops' = << >>
    /\ UNCHANGED <<on, pin, mode, eeCycle, schedVars>>

\* manual.html?Z<zone>=ON
ManualOn(zone) ==
    /\ Served(Request("on"))
    /\ ZonesBecome(zoneOn(ZonesNow, zone))
    /\ mode' = "MANUAL"
    /\ pc' = "sched"
    /\ UNCHANGED <<eeCycle, schedVars>>

\* A slip: switching a zone off by hand leaves the mode at MANUAL.
ManualOff_StaysManual(zone) ==
    /\ Served(Request("off"))
    /\ ZonesBecome(zoneOff(ZonesNow, zone))
    /\ mode' = "MANUAL"
    /\ pc' = "sched"
    /\ UNCHANGED <<eeCycle, schedVars>>

\* manual.html?Z<zone>=OFF
ManualOff(zone) ==
    /\ Served(Request("off"))
    /\ ZonesBecome(zoneOff(ZonesNow, zone))
    /\ mode' = "IDLE"
    /\ pc' = "sched"
    /\ UNCHANGED <<eeCycle, schedVars>>

\* --- manualCmd() on a parameter name typed by hand ---

\* '0', and second characters of names the form never sends: the terminator
\* of the name "Z" and '9'.
Ascii0 == 48
StrayChars == { 0, 57 }

\* int zone = pName[1] - '0', handed to the byte parameter of zoneOn/zoneOff.
ZoneIndex(c) == (c - Ascii0) % 256

\* No configured zone drives the pin gZoneList[zone].pin names.
NoZone == 0 - 1

\* gZoneList[zone] for zone >= NUM_ZONES lies beyond the array: flag is what
\* the read of its on byte yields, hit the configured zone whose pin number
\* its pin byte holds (NoZone if none).  The byte the flag write lands on is
\* not followed.

\* zoneOn(zone), zone >= NUM_ZONES
zoneOnBeyond(st, zone, flag, hit) ==
    LET s == Emit(st, "read", zone, flag)
    IN  IF ~flag
        THEN LET s0 == ZonesOffFrom(s, 0)
                 s1 == Emit(s0, "flag", zone, TRUE)
                 s2 == Emit(IF hit \in Zones THEN [s1 EXCEPT !.pin[hit] = TRUE]
                                             ELSE s1,
                            "pin", zone, TRUE)
             IN  Emit(s2, "log", zone, TRUE)
        ELSE s

\* zoneOff(zone), zone >= NUM_ZONES
zoneOffBeyond(st, zone, flag, hit) ==
    LET s == Emit(st, "read", zone, flag)
    IN  IF flag
        THEN LET s1 == Emit(s, "flag", zone, FALSE)
                 s2 == Emit(IF hit \in Zones THEN [s1 EXCEPT !.pin[hit] = FALSE]
                                             ELSE s1,
                            "pin", zone, FALSE)
             IN  Emit(s2, "log", zone, FALSE)
        ELSE s

\* manual.html?Z<c>=ON, c not the digit of a zone
ManualOnBeyond(c, flag, hit) ==
    /\ ZoneIndex(c) \notin Zones
    /\ Served(Request("on"))
    /\ ZonesBecome(zoneOnBeyond(ZonesNow, ZoneIndex(c), flag, hit))
    /\ mode' = "MANUAL"
    /\ pc' = "sched"
    /\ UNCHANGED <<eeCycle, schedVars>>

\* manual.html?Z<c>=OFF, c not the digit of a zone
ManualOffBeyond(c, flag, hit) ==
    /\ ZoneIndex(c) \notin Zones
    /\ Served(Request("off"))
    /\ ZonesBecome(zoneOffBeyond(ZonesNow, ZoneIndex(c), flag, hit))
    /\ mode' = "IDLE"
    /\ pc' = "sched"
    /\ UNCHANGED <<eeCycle, schedVars>>

\* manual.html?ALL=OFF
ManualAll ==
    /\ Served(Request("all"))
    /\ ZonesBecome(allZonesOff(ZonesNow))
    /\ mode' = "IDLE"
    /\ pc' = "sched"
    /\ UNCHANGED <<eeCycle, schedVars>>

\* A slip: the edited cycle is not written to EEPROM.
CycleCmd_NotStored(c) ==
    /\ Served(Request("cycle"))
    /\ gCurCycle' = c
    /\ LET b == build(c, eventList, toLocal(now))
       IN  /\ eventList' = b.eventList
           /\ pc' = IF b.returns THEN "sched" ELSE "hung"
    /\ ops' = << >>
    /\ UNCHANGED <<on, pin, mode, eeCycle>>

\* cycle.html?time=..&Z0=..&Z1=..&Z2=..&Z3=..&D<d>=on..&E=on
CycleCmd(c) ==
    /\ Served(Request("cycle"))
    /\ gCurCycle' = c
    /\ eeCycle' = c
    /\ LET b == build(c, eventList, toLocal(now))
       IN  /\ eventList' = b.eventList
           /\ pc' = IF b.returns THEN "sched" ELSE "hung"
    /\ ops' = << >>
    /\ UNCHANGED <<on, pin, mode>>

\* --- loop(): the scheduler tick (lines 725-746) ---

\* A slip: the mode tested is the wrong one.
SchedulerRuns_NotAuto(m) == m # "AUTO"

\* A slip: the scheduler runs whatever the mode.
SchedulerRuns_Always(m) == TRUE

\* if (sysStatus.mode != MANUAL_MODE)
SchedulerRuns(m) == m # "MANUAL"

Tick ==
    /\ pc = "sched"
    /\ IF SchedulerRuns(mode)
       THEN LET z  == activeZone
                st == IF z # 0 - 1 THEN zoneOn(ZonesNow, z) ELSE allZonesOff(ZonesNow)
                b  == IF isStale
                      THEN build(gCurCycle, eventList, toLocal(now))
                      ELSE [eventList |-> eventList, returns |-> TRUE]
            IN  /\ ZonesBecome(st)
                /\ mode' = IF z # 0 - 1 THEN "AUTO" ELSE "IDLE"
                /\ eventList' = b.eventList
                /\ pc' = IF b.returns THEN "web" ELSE "hung"
       ELSE /\ ops' = << >>
            /\ pc' = "web"
            /\ UNCHANGED <<on, pin, mode, eventList>>
    /\ req' = NoRequest
    /\ UNCHANGED <<gCurCycle, eeCycle, clockVars, nextSync, boots, notCtlVars>>

\* --- the environment: the clock, the NTP server, resets ---

\* Time passes (delay(250) and the iterations nothing happens in).
Advance ==
    /\ pc = "web"
    /\ \E d \in Steps : realTime' = realTime + d
    /\ ops' = << >>
    /\ UNCHANGED <<bootTime, synced, nextSync, on, pin, mode, eeCycle, pc, req, boots,
                   schedVars, notCtlVars>>

\* now() calls getNTPtime: a reply sets the clock, no reply puts the next call
\* off by the sync interval.
GetNTPtime ==
    /\ pc = "web"
    /\ SyncDue
    /\ \E ok \in BOOLEAN :
          /\ synced' = ok
          /\ bootTime' = IF ok THEN 0 ELSE bootTime
          /\ nextSync' = IF ok THEN 0 ELSE uptime + SECS_PER_DAY
    /\ ops' = << >>
    /\ UNCHANGED <<realTime, on, pin, mode, eeCycle, pc, req, boots,
                   schedVars, notCtlVars>>

\* The state setup() leaves when the reset happens at true time r, the NTP
\* reply arrives (ok) or not, and EEPROM holds cycle c.
Setup(r, ok, c) ==
    LET lt == toLocal(IF ok THEN r ELSE 0)
        b  == build(c, ZeroEventList, lt)
        st == allZonesOff(
                 Emit(ZoneState([z \in Zones |-> FALSE], [z \in Zones |-> FALSE], << >>),
                      "log", RESET_ZONE, FALSE))
    IN  /\ realTime' = r
        /\ bootTime' = IF ok THEN 0 ELSE r
        /\ synced' = ok
        /\ nextSync' = IF ok THEN 0 ELSE SECS_PER_DAY
        /\ ZonesBecome(st)
        /\ mode' = "IDLE"
        /\ gCurCycle' = c
        /\ eeCycle' = c
        /\ eventList' = b.eventList
        /\ pc' = IF b.returns THEN "web" ELSE "hung"
        /\ req' = NoRequest

\* A reset (power, the button, the watchdog) and setup().  Resets after the
\* first are followed with the NTP server replying, from the states where the
\* clock is set and from those where build() does not return (the watchdog);
\* the reset with no reply is the first one.
Restart ==
    /\ boots < MaxBoots
    /\ synced \/ pc = "hung"
    /\ boots' = boots + 1
    /\ Setup(realTime, TRUE, eeCycle)
    /\ UNCHANGED notCtlVars

\* --- loop() passes with no request waiting, the clock running on ---

\* Days of clock the passes below run through.
LiveDays == 12

\* The clock step before a pass: 4 s at an instant of Boundaries, else up to
\* the next one within a day, else a day (no pass between two of these steps
\* would find anything changed); none beyond LiveDays after the reset.
LiveSteps ==
    { d \in (IF toLocal(now) \in Boundaries THEN { 1 }
             ELSE IF ToNextBoundary # { } THEN ToNextBoundary
             ELSE { SECS_PER_DAY }) :
        realTime + d <= CtlBoot + (LiveDays * SECS_PER_DAY) }

\* Time passes and processConnection finds no request: the scheduler block
\* of this pass comes next.
IdleFor(d) ==
    /\ pc = "web"
    /\ ~SyncDue
    /\ realTime' = realTime + d
    /\ req' = Request("none")
    /\ pc' = "sched"
    /\ ops' = << >>
    /\ UNCHANGED <<bootTime, synced, nextSync, on, pin, mode, eeCycle, boots,
                   schedVars, notCtlVars>>

ParkCtl ==
    /\ on = [z \in Zones |-> FALSE]
    /\ pin = [z \in Zones |-> FALSE]
    /\ mode = "IDLE"
    /\ eeCycle = WaterCycle(0, [j \in Zones |-> 0], 0, FALSE)
    /\ nextSync = 0
    /\ pc = "web"
    /\ req = NoRequest
    /\ ops = << >>
    /\ boots = 0

Next ==
    \/ Idle
    \/ \E zone \in Zones : ManualOn(zone)
    \/ \E zone \in Zones : ManualOff(zone)
    \/ ManualAll
    \/ \E c \in CtlCycles : CycleCmd(c)
    \/ Tick
    \/ Advance
    \/ GetNTPtime
    \/ Restart

---------------------------------------------------------------------------
(* getNTPtime() *)

\* An unsigned long is kept as its two 16-bit words (TLC's integers stop
\* short of 2^32).
Word16 == 2 ^ 16
Long(hi, lo) == [hi |-> hi, lo |-> lo]

\* word(h, l)
word(h, l) == (h * (2 ^ 8)) + l

\* A slip: the borrow from the high word is forgotten.
Sub32_NoBorrow(a, b) == Long((a.hi - b.hi) % Word16, (a.lo - b.lo) % Word16)

\* a - b in unsigned long arithmetic
Sub32(a, b) ==
    Long((a.hi - b.hi - (IF a.lo < b.lo THEN 1 ELSE 0)) % Word16, (a.lo - b.lo) % Word16)

\* 2208988800UL, the seconds from 1900 to 1970: 33706 * 2^16 + 32384
SeventyYears == Long(33706, 32384)

\* Lines 795-805: the value returned for the packet in the buffer.
Since1970(pkt) == Sub32(Long(word(pkt[40], pkt[41]), word(pkt[42], pkt[43])), SeventyYears)

\* while (millis() - beginWait < 1500)
NTP_WAIT_MS == 1500

\* The loop is followed in steps of PollMs milliseconds.
PollMs == 500

\* Bytes 40..43 of the replies: values around the words of SeventyYears, the
\* extremes, and 0xDB 0x0A 0x92 0x50 (14 June 2016 13:00:00 UTC).
NtpReplies ==
    { [k \in 40 .. 43 |-> IF k = 40 THEN b0 ELSE IF k = 41 THEN b1
                          ELSE IF k = 42 THEN b2 ELSE b3] :
        b0 \in {0, 131, 219, 255}, b1 \in {10, 169, 170, 255},
        b2 \in {0, 126, 146}, b3 \in {0, 80, 127, 128, 131} }

\* Lines 781-787: old packets are discarded, the request is sent (the buffer
\* is all zero from byte 16 on), the wait begins.
NtpRequest ==
    /\ npc = "idle"
    /\ ntpPacket' = [k \in 40 .. 43 |-> 0]
    /\ waited' = 0
    /\ replied' = FALSE
    /\ npc' = "wait"
    /\ UNCHANGED <<ntpResult, notNtpVars>>

\* Line 789 finds no packet; time passes.
NtpWait ==
    /\ npc = "wait"
    /\ waited < NTP_WAIT_MS
    /\ waited' = waited + PollMs
    /\ UNCHANGED <<ntpPacket, npc, replied, ntpResult, notNtpVars>>

\* Lines 789-805: a packet is there within the window; it is read and
\* converted.
NtpReply ==
    /\ npc = "wait"
    /\ waited < NTP_WAIT_MS
    /\ \E pkt \in NtpReplies :
          /\ ntpPacket' = pkt
          /\ ntpResult' = Since1970(pkt)
    /\ replied' = TRUE
    /\ npc' = "done"
    /\ UNCHANGED <<waited, notNtpVars>>

\* Lines 788, 810: the window is over; return (0).
NtpTimeout ==
    /\ npc = "wait"
    /\ waited >= NTP_WAIT_MS
    /\ ntpResult' = Long(0, 0)
    /\ npc' = "done"
    /\ UNCHANGED <<ntpPacket, waited, replied, notNtpVars>>

\* The Time library calls getNTPtime again.
NtpAgain ==
    /\ npc = "done"
    /\ npc' = "idle"
    /\ UNCHANGED <<ntpPacket, waited, replied, ntpResult, notNtpVars>>

ParkNtp ==
    /\ ntpPacket = [k \in 40 .. 43 |-> 0]
    /\ npc = "idle"
    /\ waited = 0
    /\ replied = FALSE
    /\ ntpResult = Long(0, 0)

NextNtp ==
    \/ NtpRequest
    \/ NtpWait
    \/ NtpReply
    \/ NtpTimeout
    \/ NtpAgain

---------------------------------------------------------------------------
(* The specifications *)

InitLog == ParkLog /\ ParkClock /\ ParkSched /\ ParkBuild /\ ParkCtl /\ ParkNtp

SpecLog == InitLog /\ [][NextLog]_vars

InitBuild ==
    /\ ParkLog
    /\ ParkBuild
    /\ ParkCtl
    /\ ParkNtp
    /\ \E k \in ClockSamples :
          /\ realTime = k.real
          /\ bootTime = k.boot
          /\ synced = k.synced
    /\ gCurCycle \in BuildCycles
    /\ eventList = ZeroEventList

SpecBuild == InitBuild /\ [][NextBuild]_vars

\* The controller after setup() on the first reset.
Init ==
    /\ ParkLog
    /\ ParkBuild
    /\ ParkNtp
    /\ boots = 0
    /\ \E ok \in BOOLEAN, c \in CtlCycles :
          LET lt == toLocal(IF ok THEN CtlBoot ELSE 0)
              b  == build(c, ZeroEventList, lt)
              st == allZonesOff(
                       Emit(ZoneState([z \in Zones |-> FALSE], [z \in Zones |-> FALSE], << >>),
                            "log", RESET_ZONE, FALSE))
          IN  /\ realTime = CtlBoot
              /\ bootTime = (IF ok THEN 0 ELSE CtlBoot)
              /\ synced = ok
              /\ nextSync = (IF ok THEN 0 ELSE SECS_PER_DAY)
              /\ on = st.on
              /\ pin = st.pin
              /\ ops = st.ops
              /\ mode = "IDLE"
              /\ gCurCycle = c
              /\ eeCycle = c
              /\ eventList = b.eventList
              /\ pc = (IF b.returns THEN "web" ELSE "hung")
              /\ req = NoRequest

Spec == Init /\ [][Next]_vars

\* The controller when requests are also typed by hand.
NextTyped ==
    \/ Next
    \/ \E c \in StrayChars, flag \in BOOLEAN, hit \in { NoZone, 0 } :
          ManualOnBeyond(c, flag, hit)
    \/ \E c \in StrayChars, flag \in BOOLEAN, hit \in { NoZone, 0 } :
          ManualOffBeyond(c, flag, hit)

SpecTyped == Init /\ [][NextTyped]_vars

\* Cycles the form submits: those of CtlCycles, 23:00 for 30 minutes a zone
\* (the event ends after midnight), and 06:00 on Mondays and Thursdays only.
MonThu == 36
LiveCycles ==
    CtlCycles
    \cup { WaterCycle(1380, [j \in Zones |-> 30], EveryDay, TRUE),
           WaterCycle(360, [j \in Zones |-> IF j = 1 THEN 5 ELSE IF j = 3 THEN 30 ELSE 0],
                      MonThu, TRUE) }

\* The controller after setup() with the clock set by NTP.
InitLive ==
    /\ ParkLog
    /\ ParkBuild
    /\ ParkNtp
    /\ boots = 0
    /\ \E c \in LiveCycles :
          LET b  == build(c, ZeroEventList, toLocal(CtlBoot))
              st == allZonesOff(
                       Emit(ZoneState([z \in Zones |-> FALSE], [z \in Zones |-> FALSE], << >>),
                            "log", RESET_ZONE, FALSE))
          IN  /\ realTime = CtlBoot
              /\ bootTime = 0
              /\ synced = TRUE
              /\ nextSync = 0
              /\ on = st.on
              /\ pin = st.pin
              /\ ops = st.ops
              /\ mode = "IDLE"
              /\ gCurCycle = c
              /\ eeCycle = c
              /\ eventList = b.eventList
              /\ pc = (IF b.returns THEN "web" ELSE "hung")
              /\ req = NoRequest

\* loop() with the clock running on: passes with no request, manual off
\* requests, and the scheduler block.
NextLive ==
    \/ \E d \in LiveSteps : IdleFor(d)
    \/ \E zone \in Zones : ManualOff(zone)
    \/ ManualAll
    \/ Tick

\* The step out of the scheduler block.  Tick is enabled exactly when
\* pc = "sched", nothing else of NextLive is, and it always leaves "sched":
\* under NextLive the steps of TickDue are the steps of Tick.
TickDue == pc = "sched" /\ pc' \in { "web", "hung" }

\* loop() never stops being called, so the scheduler block that is due runs;
\* time does not stand still while requests are served.
SpecLive ==
    /\ InitLive
    /\ [][NextLive]_vars
    /\ WF_pc(TickDue)
    /\ SF_realTime(\E d \in LiveSteps : IdleFor(d))

InitNtp == InitLog

\* The two ints at EEADDR_ZONE_LOG_BASE in an EEPROM the sketch has never
\* cleared the log of: erased (0xFFFF, 0xFFFF), zeroed, left by other use.
RawImages == { << 0 - 1, 0 - 1 >>, << 0, 0 >>, << 176, 254 >> }

\* The log after setup() on such an EEPROM: begin() loads the two ints as head
\* and tail, add(99, false) writes the reset marker through head.
InitRaw ==
    /\ \E img \in RawImages :
          LET h0 == img[1]
              t0 == img[2]
              m  == Entry(1, RESET_ZONE, FALSE)
              h1 == AddHead(h0)
              t1 == AddTail(h1, t0)
          IN  /\ ring = PutEntry([a \in Slots |-> Entry(0, 0, FALSE)], h0, m)
              /\ eeCycle = PutOverCycle(BlankCycle, h0)
              /\ head = h1
              /\ tail = t1
              /\ eeHead = h1
              /\ eeTail = t1
              /\ hist = << m >>
    /\ clears = 0
    /\ stamp = 1
    /\ restarts = 0
    /\ ParkClock /\ ParkSched /\ ParkBuild /\ ParkNtp
    /\ on = [z \in Zones |-> FALSE]
    /\ pin = [z \in Zones |-> FALSE]
    /\ mode = "IDLE"
    /\ nextSync = 0
    /\ pc = "web"
    /\ req = NoRequest
    /\ ops = << >>
    /\ boots = 0

SpecRaw == InitRaw /\ [][NextLog]_vars

SpecNtp == InitNtp /\ [][NextNtp]_vars

---------------------------------------------------------------------------
(* Claims on ZoneLog, checked under SpecLog *)

\* The last k elements of sequence s, newest first.
NewestFirst(s, k) == [i \in 1 .. k |-> s[Len(s) + 1 - i]]

\* C2 as stated: after a clear() and more than ZONE_LOG_LENGTH (25) adds, the
\* reverse enumeration is the most recent ZONE_LOG_LENGTH entries, newest first.
C2_RetainsLength ==
    (clears > 0 /\ Len(hist) > ZONE_LOG_LENGTH)
        => dumpHTML = NewestFirst(hist, ZONE_LOG_LENGTH)

\* C2 as amended: after a clear() and more than ZONE_LOG_LENGTH adds, the
\* reverse enumeration is the most recent ZONE_LOG_LENGTH - 1 (24) entries,
\* newest first: one slot of the ring is the "throwaway" that tells a full
\* ring from an empty one.
C2_RetainsLengthLessOne ==
    (clears > 0 /\ Len(hist) > ZONE_LOG_LENGTH)
        => dumpHTML = NewestFirst(hist, ZONE_LOG_LENGTH - 1)

C2_Witness ==
    /\ clears > 0
    /\ Len(hist) > ZONE_LOG_LENGTH
    /\ Len(dumpHTML) = ZONE_LOG_LENGTH - 1
    /\ dumpHTML[1] = hist[Len(hist)]

---------------------------------------------------------------------------
(* Claims on Schedule::build, checked under SpecBuild *)

MINS_PER_DAY == 1440

\* A weekday (1..7) has its bit set in the cycle's activeDays.
HasWeekday(c) == \E w \in 1 .. DAYS_PER_WEEK : (c.activeDays \div (2 ^ w)) % 2 = 1

\* build() has returned after compiling an event for the current cycle.
Compiled == bpc = "done" /\ gCurCycle.enabled /\ gCurCycle.activeDays # 0

\* The instants local midnight + startTime minutes of the day of lt and of the
\* days after it.
StartInstants(c, lt) ==
    { previousMidnight(lt) + (d * SECS_PER_DAY) + (c.startTime * SECS_PER_MIN) :
        d \in 0 .. DAYS_PER_WEEK + 1 }

\* t is the earliest instant at or after lt that is a start instant of c on a
\* day c selects.
EarliestStart(c, lt, t) ==
    LET good == { u \in StartInstants(c, lt) : u >= lt /\ DaySelected(c, u) }
    IN  t \in good /\ \A u \in good : t <= u

\* C6: for an enabled cycle with a weekday selected (start minute in 0..1439),
\* the event build() compiles at local time lt starts at the earliest instant
\* t >= lt with t = local midnight + startTime minutes and weekday(t) selected.
C6_EarliestStart ==
    (Compiled /\ HasWeekday(gCurCycle) /\ gCurCycle.startTime \in 0 .. MINS_PER_DAY - 1)
        => EarliestStart(gCurCycle, localTime, eventList[0].startTime)

RECURSIVE SumDurations(_, _)
SumDurations(c, j) ==
    c.zone_duration[j] + (IF j = 0 THEN 0 ELSE SumDurations(c, j - 1))

\* The zone windows of event ev follow each other for cycle c.
Sequential(c, ev) ==
    /\ ev.startTime <= ev.zoneStopTime[0]
    /\ \A j \in Zones \ {NUM_ZONES - 1} : ev.zoneStopTime[j] <= ev.zoneStopTime[j + 1]
    /\ \A j \in Zones :
          ev.zoneStopTime[j] =
              (IF j = 0 THEN ev.startTime ELSE ev.zoneStopTime[j - 1])
                  + (c.zone_duration[j] * SECS_PER_MIN)
    /\ ev.zoneStopTime[NUM_ZONES - 1] - ev.startTime
          = SumDurations(c, NUM_ZONES - 1) * SECS_PER_MIN

\* C7: in every compiled event the stop times do not decrease, each is the
\* previous stop plus the zone's duration, and the last stop is the start plus
\* the sum of the durations.
C7_SequentialWindows ==
    Compiled => \A i \in EventIdx : Sequential(gCurCycle, eventList[i])

\* C8: build() of a cycle that is disabled or has no day set leaves every event
\* zero, whatever the schedule held before, and activeZone() then reports no
\* zone.
C8_InactiveCycleEmpty ==
    (bpc = "done" /\ (~gCurCycle.enabled \/ gCurCycle.activeDays = 0))
        => (eventList = ZeroEventList /\ activeZone = 0 - 1)

C8_Witness ==
    /\ bpc = "done"
    /\ ~gCurCycle.enabled
    /\ gCurCycle.activeDays # 0
    /\ oldEvents # ZeroEventList
    /\ eventList = ZeroEventList

\* C9: build() returns for every cycle.  The loop of line 217 has one exit,
\* i reaching NUM_SCHED_EVENTS, and i advances only on a day the mask selects;
\* the weekdays of the candidates repeat every DAYS_PER_WEEK days (two weeks
\* cover a wrap of eventStart past 2^32 s).  So build() returns exactly if,
\* whenever the loop is running, a candidate of the coming two weeks is
\* selected.
C9_ScanStops ==
    (bpc = "scan" /\ bi < NUM_SCHED_EVENTS)
        => \E k \in 0 .. (2 * DAYS_PER_WEEK) - 1 :
              DaySelected(gCurCycle, U32(eventStart + (k * SECS_PER_DAY)))

---------------------------------------------------------------------------
(* Claims on the controller, checked under Spec *)

\* A step of one handler that returns: a request served, or a scheduler tick.
\* (A reset also moves pc, and counts in boots.)
RequestStep == pc = "web" /\ pc' = "sched" /\ boots' = boots
TickStep == pc = "sched" /\ pc' = "web" /\ boots' = boots

IsFlag(e) == e.k = "flag"
IsLog(e) == e.k = "log"

\* C1: at most one zone has its on flag set, in every state between handlers
\* and after every single write a handler makes (the flags recorded with each
\* entry of ops).
C1_AtMostOneOn ==
    /\ Cardinality(OnSet(on)) <= 1
    /\ \A i \in DOMAIN ops : Cardinality(ops[i].on) <= 1

\* A scheduler tick has called zoneOn while another zone was on: it switched
\* that zone off, then the new one on.
C1_Witness ==
    /\ pc = "web"
    /\ mode = "AUTO"
    /\ \E i, j \in DOMAIN ops :
          /\ i < j
          /\ IsFlag(ops[i]) /\ ~ops[i].val
          /\ IsFlag(ops[j]) /\ ops[j].val
          /\ ops[i].zone # ops[j].zone

\* C3: in every step other than a reset, the flag writes of the handler and
\* its log entries are the same (zone, state) pairs in the same order; every
\* flag write changes the flag; a zone whose flag differs after the step has
\* exactly one flag write, to the new value, and a zone whose flag is the same
\* has none.
C3_LogPairing ==
    [][ (boots' = boots) =>
          LET flags == SelectSeq(ops', IsFlag)
              logs  == SelectSeq(ops', IsLog)
          IN  /\ Len(flags) = Len(logs)
              /\ \A i \in DOMAIN flags :
                    /\ flags[i].zone = logs[i].zone
                    /\ flags[i].val = logs[i].val
              /\ \A z \in Zones :
                    LET writes == { i \in DOMAIN flags : flags[i].zone = z }
                    IN  IF on'[z] # on[z]
                        THEN /\ Cardinality(writes) = 1
                             /\ \A i \in writes : flags[i].val = on'[z]
                        ELSE writes = { }
      ]_vars

\* A manual turn-on has switched one zone off and another on.
C3_Witness ==
    /\ pc = "sched"
    /\ req.k = "on"
    /\ Len(SelectSeq(ops, IsLog)) = 2
    /\ Len(SelectSeq(ops, IsFlag)) = 2

\* What a tick that resolves the zones from the schedule leaves: the zone
\* activeZone() reported on and the others off in mode Auto, or every zone off
\* in mode Idle.
Resolved ==
    LET z == activeZone
    IN  IF z # 0 - 1
        THEN on' = [y \in Zones |-> y = z] /\ mode' = "AUTO"
        ELSE on' = [y \in Zones |-> FALSE] /\ mode' = "IDLE"

\* C4: a manual turn-on served in mode Auto leaves mode Manual; a tick in mode
\* Manual writes no flag, pin or log entry and leaves the mode; short of a
\* reset, mode Manual ends only by a manual turn-off or all-off, which leaves
\* mode Idle; and the tick after that request resolves the zones from the
\* schedule.
C4_ManualOverride ==
    [][ /\ (RequestStep /\ req'.k = "on" /\ mode = "AUTO") => mode' = "MANUAL"
        /\ (TickStep /\ mode = "MANUAL") =>
              (on' = on /\ pin' = pin /\ mode' = mode /\ ops' = << >>)
        /\ (mode = "MANUAL" /\ mode' # "MANUAL" /\ boots' = boots) =>
              (RequestStep /\ req'.k \in {"off", "all"} /\ mode' = "IDLE")
        /\ (TickStep /\ req.k \in {"off", "all"}) => Resolved
      ]_vars

\* A manual turn-on was served in mode Auto: the zone it names is on, the zone
\* of the schedule is off, and the mode is Manual.
C4_Witness ==
    /\ pc = "sched"
    /\ req.k = "on"
    /\ req.mode0 = "AUTO"
    /\ mode = "MANUAL"
    /\ activeZone # 0 - 1
    /\ ~on[activeZone]
    /\ Cardinality(OnSet(on)) = 1

\* C5: every scheduler tick that starts in a mode other than Manual and
\* returns leaves the zone activeZone() reported on, every other zone off and
\* mode Auto, or, when it reported none, every zone off and mode Idle.
C5_TickResolves ==
    [][ (TickStep /\ mode # "MANUAL") => Resolved ]_vars

\* A tick has found a zone on that the schedule does not have on (left by a
\* manual command, or its window over) and switched it off.
C5_Witness ==
    /\ pc = "web"
    /\ mode = "IDLE"
    /\ \E i \in DOMAIN ops : IsLog(ops[i]) /\ ~ops[i].val /\ ops[i].zone \in Zones

\* A scheduler tick has just switched a zone on.
TickTurnedOn == pc = "web" /\ \E i \in DOMAIN ops : IsFlag(ops[i]) /\ ops[i].val

\* C10: while the clock has never been set, the schedule holds no event,
\* activeZone() reports no zone, and no tick switches a zone on.
C10_TimeUnknown ==
    ~synced => (eventList = ZeroEventList /\ activeZone = 0 - 1 /\ ~TickTurnedOn)

\* A step in which build() ran: a cycle request, a tick that found the
\* schedule stale, a reset.
BuildRan ==
    \/ RequestStep /\ req'.k = "cycle"
    \/ TickStep /\ SchedulerRuns(mode) /\ isStale
    \/ boots' # boots

\* build() has just returned with an event compiled, none of them starting
\* before the local time of the call.
BuiltAhead ==
    /\ BuildRan
    /\ pc' # "hung"
    /\ gCurCycle'.enabled /\ gCurCycle'.activeDays # 0
    /\ \A i \in EventIdx : (toLocal(now))' <= eventList'[i].startTime

\* zoneStopTime of the last zone of the last event
LastStop(evl) == evl[NUM_SCHED_EVENTS - 1].zoneStopTime[NUM_ZONES - 1]

\* C11: the schedule is not stale just after a build() that compiled an event
\* ahead of the local time; in a step without build() it is stale afterwards
\* exactly if the local time is then past the last stop time of the schedule,
\* and a stale schedule stays stale.
C11_Staleness ==
    [][ /\ BuiltAhead => ~isStale'
        /\ ~BuildRan => /\ isStale' <=> ((toLocal(now))' > LastStop(eventList))
                        /\ isStale => isStale'
      ]_vars

\* The window of zone j in event ev contains lt: the event has started, the
\* zone before j (the event itself for zone 0) has stopped, zone j has not.
InWindow(ev, j, lt) ==
    /\ ev.startTime <= lt
    /\ (IF j = 0 THEN ev.startTime ELSE ev.zoneStopTime[j - 1]) <= lt
    /\ lt < ev.zoneStopTime[j]

\* The events that have started at lt and have a zone that stops later.
Running(lt) ==
    { i \in EventIdx :
        eventList[i].startTime <= lt /\ \E j \in Zones : eventList[i].zoneStopTime[j] > lt }

\* C12: activeZone() is the lowest zone with a stop time after now in the first
\* started event that has one, and -1 if there is none; it is -1 exactly if no
\* zone window of an event contains now, the zone it reports has now in its
\* window, and no two zone windows of an event contain now.
C12_ActiveZoneQuery ==
    LET lt == toLocal(now)
    IN  /\ IF Running(lt) = { }
           THEN activeZone = 0 - 1
           ELSE LET i == CHOOSE i \in Running(lt) : \A k \in Running(lt) : i <= k
                IN  /\ activeZone \in Zones
                    /\ eventList[i].zoneStopTime[activeZone] > lt
                    /\ \A j \in Zones : eventList[i].zoneStopTime[j] > lt => activeZone <= j
                    /\ InWindow(eventList[i], activeZone, lt)
        /\ (activeZone = 0 - 1) <=>
              ~ \E i \in EventIdx, j \in Zones : InWindow(eventList[i], j, lt)
        /\ \A i \in EventIdx :
              Cardinality({ j \in Zones : InWindow(eventList[i], j, lt) }) <= 1

\* The clock is in the window of zone 3, zone 2 having a window of no length.
C12_Witness ==
    /\ activeZone = 3
    /\ eventList[0].zoneStopTime[2] = eventList[0].zoneStopTime[1]
    /\ toLocal(now) > eventList[0].zoneStopTime[2]

\* C13: whenever the current cycle is disabled, activeZone() reports no zone.
C13_DisabledNeverActive ==
    ~gCurCycle.enabled => activeZone = 0 - 1

\* A cycle request has disabled the cycle while the scheduler had a zone on:
\* the zone is still on (the tick comes next) and activeZone() reports none.
C13_Witness ==
    /\ pc = "sched"
    /\ req.k = "cycle"
    /\ req.mode0 = "AUTO"
    /\ ~gCurCycle.enabled
    /\ gCurCycle.activeDays # 0
    /\ OnSet(on) # { }
    /\ activeZone = 0 - 1

\* C17 as stated: after a manual command on a single zone, on or off, the
\* mode is MANUAL.
C17_ManualAfterZoneCommand ==
    req.k \in {"on", "off"} => mode = "MANUAL"

\* C17, amended: after Z<n>=ON the mode is MANUAL, after Z<n>=OFF it is IDLE.
C17_ModeAfterZoneCommand ==
    /\ req.k = "on" => mode = "MANUAL"
    /\ req.k = "off" => mode = "IDLE"

\* A zone switched on by hand has been switched off by hand.
C17_Witness ==
    /\ req.k = "off"
    /\ req.mode0 = "MANUAL"
    /\ mode = "IDLE"
    /\ \E i \in 1 .. Len(ops) : ops[i].k = "pin" /\ ~ops[i].val

\* The request served in this step is a cycle edit (cycleCmd), build()
\* returning or not.
CycleEdited == pc = "web" /\ req'.k = "cycle"

\* The local time lt and the later instants at which a zone window of the
\* events evl ends and the next begins.
Moments(evl, lt) ==
    {lt} \cup { t \in { evl[i].zoneStopTime[j] : i \in EventIdx, j \in Zones } : t > lt }

\* C18: a cycle edit served while a compiled event is in progress leaves the
\* zone windows of that event in force: now, and at every later instant up
\* to the event's last stop time at which one of its zone windows begins,
\* activeZone() reports the zone the event had compiled for that instant.
C18_MidEventEdit ==
    [][ (CycleEdited /\ activeZone # 0 - 1) =>
            \A t \in Moments(eventList, toLocal(now)) :
                t < LastStop(eventList) =>
                    activeZoneAt(eventList', t) = activeZoneAt(eventList, t)
      ]_vars

\* C19: in the writes of every handler, the log append of zoneOn(z) or
\* zoneOff(z) comes straight after the pin write of the same call, and when
\* the append is attempted the pin of z is already at the level the entry
\* records: an append that fails or does not return leaves the pin written.
C19_PinBeforeLog ==
    \A i \in 1 .. Len(ops) :
        (IsLog(ops[i]) /\ ops[i].zone \in Zones) =>
            /\ i > 1
            /\ ops[i - 1].k = "pin"
            /\ ops[i - 1].zone = ops[i].zone
            /\ ops[i - 1].val = ops[i].val
            /\ (ops[i].zone \in ops[i].hi) <=> ops[i].val

\* zoneOn() has switched one zone off and another on: two pin writes, each
\* followed by its log append.
C19_Witness ==
    \E i, j \in 1 .. Len(ops) :
        /\ i < j
        /\ IsLog(ops[i]) /\ ~ops[i].val
        /\ IsLog(ops[j]) /\ ops[j].val
        /\ ops[i].zone \in Zones
        /\ ops[j].zone \in Zones

\* The events build() leaves for cycle c at the clock reading of the state
\* after the step, when it returns.
FreshlyBuilt(c) == build(c, ZeroEventList, (toLocal(now))')

C21_NoOp ==
    /\ \A z \in Zones :
          /\ on[z] => zoneOn(ZonesNow, z) = ZonesNow
          /\ ~on[z] => zoneOff(ZonesNow, z) = ZonesNow
    /\ allZonesOff(allZonesOff(ZonesNow)) = allZonesOff(ZonesNow)

\* Z<n>=ON was served for the zone that was on already, and wrote nothing.
C21_Witness ==
    /\ pc = "sched"
    /\ req.k = "on"
    /\ ops = << >>
    /\ OnSet(on) # { }

IsPin(e) == e.k = "pin"

\* The (zone, level) pairs of the writes of kind k in trace t, in order.
Written(t, k) ==
    LET w == SelectSeq(t, LAMBDA e : e.k = k)
    IN  [i \in DOMAIN w |-> << w[i].zone, w[i].val >>]

\* C22: in every state with one zone y on, zoneOn(z) for another zone z
\* appends the log entries (y, false), (z, true) and no other, and writes y's
\* pin LOW, then z's pin HIGH, and no other pin; in every state with no zone
\* on it appends (z, true) alone and writes z's pin HIGH alone.
C22_SwitchOver ==
    \A z \in Zones :
        LET t == zoneOn(ZonesNow, z).ops
        IN  /\ \A y \in Zones \ {z} :
                  OnSet(on) = {y} =>
                      /\ Written(t, "log") = << <<y, FALSE>>, <<z, TRUE>> >>
                      /\ Written(t, "pin") = << <<y, FALSE>>, <<z, TRUE>> >>
            /\ OnSet(on) = { } =>
                  /\ Written(t, "log") = << <<z, TRUE>> >>
                  /\ Written(t, "pin") = << <<z, TRUE>> >>

\* Z<n>=ON was served while the scheduler had another zone on: the trace of
\* the handler holds the two log entries.
C22_Witness ==
    /\ pc = "sched"
    /\ req.k = "on"
    /\ req.mode0 = "AUTO"
    /\ Len(Written(ops, "log")) = 2
    /\ Written(ops, "log")[1][2] = FALSE
    /\ Written(ops, "log")[2][2] = TRUE

\* C23: between handlers every zone's on flag equals the level last written
\* to its pin (LOW when none was written since the reset), and after every
\* single write inside a handler at most one pin is HIGH.
C23_ActuatorAgreement ==
    /\ \A z \in Zones : on[z] = pin[z]
    /\ \A i \in DOMAIN ops : Cardinality(ops[i].hi) <= 1

\* A tick has switched over: one pin is HIGH, and inside the handler, after the
\* pin write that switched the other zone off, none was.
C23_Witness ==
    /\ pc = "web"
    /\ Cardinality(OnSet(pin)) = 1
    /\ \E i \in DOMAIN ops : IsPin(ops[i]) /\ ~ops[i].val /\ ops[i].hi = { }
    /\ \E i \in DOMAIN ops : IsPin(ops[i]) /\ ops[i].val

\* C30: at the end of every loop() iteration (the state a tick that returns
\* leaves, and every state up to the next request), mode Idle goes with every
\* zone off and mode Auto with exactly one zone on; and every tick that leaves
\* mode Auto leaves on the zone activeZone() reported to it.
C30_EndOfTick ==
    /\ [](pc = "web" =>
            /\ mode = "IDLE" => OnSet(on) = { }
            /\ mode = "AUTO" => Cardinality(OnSet(on)) = 1)
    /\ [][ (TickStep /\ mode' = "AUTO") => OnSet(on') = {activeZone} ]_vars

\* A tick that activeZone() reported no zone to has switched off the zone it
\* found on and left mode Idle.
C30_Witness ==
    /\ pc = "web"
    /\ mode = "IDLE"
    /\ OnSet(on) = { }
    /\ \E i \in DOMAIN ops : IsPin(ops[i]) /\ ~ops[i].val
    /\ activeZone = 0 - 1

\* C31: a tick in mode Manual leaves the zone flags, the pins, the mode and
\* the event list as they are and writes nothing (no pin, no log entry), stale
\* schedule or not; and so does every other step in mode Manual that is not
\* a request being served or a reset: a zone switched on by hand stays on
\* while time passes.
C31_ManualTickInert ==
    [][ (mode = "MANUAL" /\ ~(pc = "web" /\ req'.k # "none") /\ boots' = boots) =>
            /\ on' = on
            /\ pin' = pin
            /\ mode' = mode
            /\ eventList' = eventList
            /\ ops' = << >>
            /\ pc' # "hung"
      ]_vars

\* Mode Manual with a zone on, a day and more after the reset, the schedule
\* stale and not rebuilt, the last tick done.
C31_Witness ==
    /\ pc = "web"
    /\ req = NoRequest
    /\ mode = "MANUAL"
    /\ OnSet(on) # { }
    /\ isStale
    /\ eventList[0].startTime # 0
    /\ realTime >= CtlBoot + SECS_PER_DAY

\* C33: activeZone() never reports a zone whose duration in the current cycle
\* is 0, and while the event list stays as compiled and the local time moves
\* forward from the start of the event, the zone reported never falls back:
\* it stays or moves to a higher index, and once it is none it stays none.
C33_SkipsZeroAndAscends ==
    /\ [](activeZone # 0 - 1 => gCurCycle.zone_duration[activeZone] # 0)
    /\ [][ ( /\ eventList' = eventList
             /\ toLocal(now)' > toLocal(now)
             /\ toLocal(now) >= eventList[0].startTime )
           => \/ activeZone' = 0 - 1
              \/ activeZone # 0 - 1 /\ activeZone' >= activeZone
        ]_vars

\* A tick has switched zone 1 off and zone 3 on, zone 2 having no duration
\* in the cycle compiled.
C33_Witness ==
    /\ pc = "web"
    /\ mode = "AUTO"
    /\ gCurCycle.zone_duration[2] = 0
    /\ activeZone = 3
    /\ on[3]
    /\ \E n \in DOMAIN ops : IsFlag(ops[n]) /\ ops[n].zone = 1 /\ ~ops[n].val

---------------------------------------------------------------------------
(* Claims on the loop with the clock running on, checked under SpecLive *)

\* activeDays selects a weekday (bits 1..7; bit 0 selects none).
ValidDay(cycle) ==
    \E d \in 1 .. DAYS_PER_WEEK : (cycle.activeDays \div (2 ^ d)) % 2 = 1

\* The cycle is enabled with a valid weekday and a positive duration for
\* zone z, the clock is set and the mode is not Manual.
Watered(z) ==
    /\ gCurCycle.enabled
    /\ ValidDay(gCurCycle)
    /\ gCurCycle.zone_duration[z] > 0
    /\ synced
    /\ mode # "MANUAL"

\* The clock of the model has a week and a day left to run.
RoomLeft == realTime + ((DAYS_PER_WEEK + 1) * SECS_PER_DAY) <= CtlBoot + (LiveDays * SECS_PER_DAY)

\* C34: with the cycle enabled, a valid weekday selected, a positive duration
\* for zone z, the clock set and running on and the mode never Manual,
\* whenever zone z is off it is later switched on by the scheduler, and
\* whenever the compiled event has passed the schedule is later recompiled
\* to an occurrence on a selected day that has not started yet.
C34_WateringRecurs ==
    /\ \A z \in Zones :
          (Watered(z) /\ ~on[z] /\ RoomLeft)
              ~> (on[z] /\ pin[z] /\ mode = "AUTO" /\ activeZone = z)
    /\ \A z \in Zones :
          (Watered(z) /\ isStale /\ RoomLeft)
              ~> ( /\ ~isStale
                   /\ eventList[0].startTime >= toLocal(now)
                   /\ DaySelected(gCurCycle, eventList[0].startTime) )

\* Zone 3 is on by the schedule two days and more after the reset: the
\* schedule has been recompiled at least once since.
C34_Witness ==
    /\ Watered(3)
    /\ on[3]
    /\ mode = "AUTO"
    /\ realTime >= CtlBoot + (2 * SECS_PER_DAY)
    /\ eventList[0].startTime >= toLocal(CtlBoot + SECS_PER_DAY)

---------------------------------------------------------------------------
(* Claims on requests typed by hand, checked under SpecTyped *)

\* C32: every flag or pin a handler reads or writes is that of a configured
\* zone, and every log entry it adds names a configured zone or the restart
\* marker: zoneOn and zoneOff are only ever called with an index in
\* 0 .. NUM_ZONES-1.
C32_ValidZoneIndex ==
    \A n \in DOMAIN ops :
        \/ ops[n].zone \in Zones
        \/ IsLog(ops[n]) /\ ops[n].zone = RESET_ZONE

---------------------------------------------------------------------------
(* Further claims on build(), checked under SpecBuild *)

\* C14: when build() has returned, running it again on the same cycle at the
\* same clock reading returns and leaves the same events, and so does running
\* it from an empty list and from the list the first call found.
C14_BuildIdempotent ==
    bpc = "done" =>
        /\ build(gCurCycle, eventList, toLocal(now)).returns
        /\ \A evl \in { eventList, ZeroEventList, oldEvents } :
              build(gCurCycle, evl, toLocal(now)).eventList = eventList

\* build() has compiled an event over a list that held another one.
C14_Witness ==
    /\ Compiled
    /\ oldEvents # ZeroEventList
    /\ oldEvents # eventList
    /\ eventList # ZeroEventList

---------------------------------------------------------------------------
(* Further claims on ZoneLog, checked under SpecLog *)

\* Sequence p is the first Len(p) elements of sequence s.
IsPrefix(p, s) == Len(p) <= Len(s) /\ \A i \in DOMAIN p : p[i] = s[i]

\* C15: a reset leaves the log as it was but for the entries written since:
\* after the step of a reset, the enumeration is k new entries (the reset
\* marker, and the entry add() was writing when the reset came, if any)
\* followed by the entries enumerable before the step, newest first, less at
\* most the k oldest.
C15_SurvivesRestart ==
    [][ (restarts' # restarts) =>
          LET before == dumpHTML
              after  == DumpFrom(head', tail', ring', ZONE_LOG_LENGTH + 1)
              n      == Len(after)
          IN  \E k \in 1 .. 2 :
                 /\ k <= n
                 /\ IsPrefix(SubSeq(after, k + 1, n), before)
                 /\ n >= Len(before)
      ]_vars

---------------------------------------------------------------------------
(* Claims on getNTPtime, checked under SpecNtp *)

\* The big-endian value of bytes 40..43 less 2208988800, modulo 2^32, as its
\* quotient by 4 (below 2^30) and its remainder: 2208988800 = 4 * 552247200.
QuarterOf(pkt) ==
    (pkt[40] * (2 ^ 22)) + (pkt[41] * (2 ^ 14)) + (pkt[42] * (2 ^ 6)) + (pkt[43] \div 4)
SeventyYearsQuarter == 552247200
ExpectedQuarter(pkt) == (QuarterOf(pkt) - SeventyYearsQuarter) % (2 ^ 30)
ExpectedRest(pkt) == pkt[43] % 4

\* C16: when getNTPtime has returned after reading a reply, the value is the
\* big-endian number in bytes 40..43 of the reply less 2208988800 modulo
\* 2^32, and the reply came before 1500 ms had passed; when it has returned
\* without a reply, 1500 ms have passed and the value is 0.
C16_NtpConversion ==
    npc = "done" =>
        IF replied
        THEN /\ waited < NTP_WAIT_MS
             /\ (ntpResult.hi * (2 ^ 14)) + (ntpResult.lo \div 4) = ExpectedQuarter(ntpPacket)
             /\ ntpResult.lo % 4 = ExpectedRest(ntpPacket)
        ELSE /\ waited >= NTP_WAIT_MS
             /\ ntpResult = Long(0, 0)

\* A reply was converted whose low word is below that of 2208988800 (a
\* borrow), 1000 ms into the wait.
C16_Witness ==
    /\ npc = "done"
    /\ replied
    /\ waited = 2 * PollMs
    /\ word(ntpPacket[42], ntpPacket[43]) < SeventyYears.lo
    /\ ntpPacket[40] = 219

\* The step is one whole add(): by zoneOn()/zoneOff(), or by setup() after a
\* reset between two handlers.
AddStep == stamp' = stamp + 1

\* The entries dumpHTML() lists after the step.
DumpAfter == DumpFrom(head', tail', ring', ZONE_LOG_LENGTH + 1)

\* The ring is full: every slot but one is enumerable.
RingFull == Len(dumpHTML) = ZONE_LOG_LENGTH - 1

\* C24: an add() on a full ring leaves the enumeration with the new entry
\* first, followed by the earlier entries in their order but for the oldest
\* one, which is gone; an add() on a ring that is not full leaves the new
\* entry followed by every earlier entry.
C24_EvictsOldest ==
    [][ AddStep =>
          LET before == dumpHTML
              kept   == IF RingFull THEN SubSeq(before, 1, Len(before) - 1) ELSE before
          IN  DumpAfter = << ring'[head] >> \o kept
      ]_vars

\* The ring is full and adds have evicted entries: the oldest entry listed is
\* not the first one written.
C24_Witness ==
    /\ RingFull
    /\ stamp > ZONE_LOG_LENGTH
    /\ dumpHTML[Len(dumpHTML)].tm > 1
    /\ dumpHTML[1].tm = stamp

\* The step is a reset inside an add(), followed by setup().
ResetInAddStep == stamp' = stamp + 2

\* What dumpHTML() lists after a whole add() of x to a log listing L.
Added(L, x) ==
    << x >> \o (IF Len(L) = ZONE_LOG_LENGTH - 1 THEN SubSeq(L, 1, Len(L) - 1) ELSE L)

\* C28: when a reset cuts an add() short at any point, the log setup() finds
\* is the log as it was before that add() or as the whole add() would have
\* left it: with the reset marker setup() adds, dumpHTML() lists one of the
\* two, the marker first.
C28_CrashAtomicity ==
    [][ ResetInAddStep =>
          LET e == NthEntry(stamp + 1)
              m == Entry(stamp + 2, RESET_ZONE, FALSE)
          IN  \/ DumpAfter = Added(dumpHTML, m)
              \/ DumpAfter = Added(Added(dumpHTML, e), m)
      ]_vars

---------------------------------------------------------------------------
(* Claims on a log area never initialised, checked under SpecRaw *)

\* C25: whatever head and tail were, in RAM and in EEPROM, clear() leaves all
\* four at EEADDR_ZONE_LOG_START, and dumpHTML() then lists no entry.
C25_Clear ==
    [][ (clears' # clears) =>
          /\ head' = EEADDR_ZONE_LOG_START
          /\ tail' = EEADDR_ZONE_LOG_START
          /\ eeHead' = EEADDR_ZONE_LOG_START
          /\ eeTail' = EEADDR_ZONE_LOG_START
          /\ DumpAfter = << >>
      ]_vars

\* The first clear() has run on a log that setup() had entered through the
\* pointers of an erased or zeroed EEPROM (its marker went over the stored
\* cycle).
C25_Witness ==
    /\ clears = 1
    /\ hist = << >>
    /\ eeCycle = TornCycle
    /\ head = EEADDR_ZONE_LOG_START
    /\ tail = EEADDR_ZONE_LOG_START
    /\ dumpHTML = << >>

\* The put w stores a part of the entry.
IsEntryPut(w) == w.what \in {"tm", "zone", "state"}

\* C26: in every add() the three puts of the entry come before the puts of
\* head and tail, which are the last two and store the values head and tail
\* have in RAM when add() returns; and after every add() and every clear()
\* the stored head and tail equal head and tail in RAM.
C26_PointersLast ==
    [][ /\ AddStep =>
             LET w == AddWrites(head, tail)
                 n == Len(w)
             IN  /\ \A i \in 1 .. n - 2 : IsEntryPut(w[i])
                 /\ { w[i].what : i \in 1 .. n - 2 } = {"tm", "zone", "state"}
                 /\ w[n - 1] = Put(EEADDR_ZONE_LOG_BASE, "head", head')
                 /\ w[n] = Put(EEADDR_ZONE_LOG_BASE + SizeofInt, "tail", tail')
        /\ (AddStep \/ clears' # clears) => (eeHead' = head' /\ eeTail' = tail')
      ]_vars

\* An add() on a full ring has moved both pointers, and both are stored.
C26_Witness ==
    /\ stamp > ZONE_LOG_LENGTH
    /\ restarts = 0
    /\ tail # EEADDR_ZONE_LOG_START
    /\ head # EEADDR_ZONE_LOG_START
    /\ eeHead = head
    /\ eeTail = tail

C29_PointerValidity ==
    clears > 0 =>
        /\ {head, tail, eeHead, eeTail} \subseteq Slots
        /\ EEADDR_ZONE_LOG_START <= head
        /\ head + ZONE_LOG_ELEM_SIZE <= EEADDR_ZONE_LOG_END
        /\ ~Overlap(head, EEADDR_ZONE_LOG_BASE, 2 * SizeofInt)
        /\ ~Overlap(head, EEADDR_WATER_CYCLE, SizeofWaterCycle)
        /\ (head = tail) <=> (dumpHTML = << >>)

\* After a clear(), adds have taken head round the ring: it is back at the
\* first slot, tail one slot ahead of it.
C29_Witness ==
    /\ clears > 0
    /\ Len(hist) = ZONE_LOG_LENGTH
    /\ head = EEADDR_ZONE_LOG_START
    /\ tail = EEADDR_ZONE_LOG_START + ZONE_LOG_ELEM_SIZE

===========================================================================
